---------------------------- MODULE Spec2Model ----------------------------
(***************************************************************************)
(* gopatchy/potency: Idempotency-Key middleware.                           *)
(*                                                                         *)
(* The state is that of one Potency value (lifetime, cache, cacheOldest,   *)
(* cacheNewest, inProgress), the heap of savedResult nodes it points into, *)
(* a clock, and one record per inbound request (its position inside        *)
(* ServeHTTP / serveHTTP and its locals).  Every lock-protected section of *)
(* the code is one atomic action; the wrapped handler is an opaque step    *)
(* that reads from the body tap and writes to the response tap.            *)
(***************************************************************************)
EXTENDS Integers, Sequences, FiniteSets, TLC

(***************************************************************************)
(* Bounds of the model.                                                    *)
(***************************************************************************)
\* requests in a run, and how many of them the concurrent runs use
NReq == 3
NConc == 2
MaxClock == 2

(***************************************************************************)
(* Program constants.                                                      *)
(***************************************************************************)
\* lifetime: 6 * time.Hour (the clock of the model counts hours)
DefaultLifetime == 6
\* http.StatusOK, the status a response tap starts with
StatusOK == 200

Nil == 0
Q == "\""

Reqs == 1..NReq
Conc == 1..NConc
Lifetimes == {0, 1, DefaultLifetime}

criticalHeaders == <<"Accept", "Authorization">>

Min(a, b) == IF a < b THEN a ELSE b

(***************************************************************************)
(* http.Header: a function from header names to the sequence of values.    *)
(* Get returns the first value, or "" when the header is absent.           *)
(***************************************************************************)
HeaderGet(h, name) ==
    IF name \in DOMAIN h /\ h[name] # <<>> THEN Head(h[name]) ELSE ""

HeaderSet(h, name, v) == (name :> <<v>>) @@ h

HeaderAdd(h, name, v) ==
    (name :> ((IF name \in DOMAIN h THEN h[name] ELSE <<>>) \o <<v>>)) @@ h

(***************************************************************************)
(* sha256: modelled as an injective function of the bytes written to it    *)
(* (collision freedom is the only property of the digest the code uses).   *)
(***************************************************************************)
Sha256New == <<>>
Sha256Write(h, data) == h \o data
Sha256Sum(h) == [sha256 |-> h]


(***************************************************************************)
(* The real response sink (net/http's ResponseWriter) behind the tap: the  *)
(* header map is live, the first WriteHeader fixes the status and the      *)
(* headers that are sent, and a Write before any WriteHeader implies 200.  *)
(***************************************************************************)
NewDest ==
    [header |-> <<>>, wroteHeader |-> FALSE, status |-> 0,
     sentHeader |-> <<>>, body |-> <<>>]

DestWriteHeader(d, code) ==
    IF d.wroteHeader THEN d
    ELSE [d EXCEPT !.wroteHeader = TRUE, !.status = code, !.sentHeader = d.header]

DestWrite(d, data) ==
    LET e == DestWriteHeader(d, StatusOK) IN [e EXCEPT !.body = @ \o data]

DestHeaderSet(d, name, v) == [d EXCEPT !.header = HeaderSet(@, name, v)]

(***************************************************************************)
(* responseWriterIntercept                                                 *)
(***************************************************************************)
newResponseWriterIntercept(dest) ==
    [dest |-> dest, buf |-> <<>>, statusCode |-> StatusOK]

RwiHeader(rwi) == rwi.dest.header

RwiHeaderAdd(rwi, name, v) == [rwi EXCEPT !.dest.header = HeaderAdd(@, name, v)]

RwiWrite(rwi, data) ==
    [rwi EXCEPT !.buf = @ \o data, !.dest = DestWrite(@, data)]

RwiWriteHeader(rwi, statusCode) ==
    [rwi EXCEPT !.statusCode = statusCode, !.dest = DestWriteHeader(@, statusCode)]

(***************************************************************************)
(* bodyIntercept over a request body.  A body is [data, err]: the bytes    *)
(* still to be read, and whether the read that reaches their end reports   *)
(* an I/O error instead of EOF.                                            *)
(***************************************************************************)
\* the io.ReadCloser of a request body that nobody has touched yet
Open(body) == [data |-> body.data, err |-> body.err, closed |-> FALSE]

\* source.Read(p) with len(p) = n: the bytes it returns, its error ("" is
\* nil) and the source afterwards.  The read that reaches the end returns
\* its bytes together with the error (io.EOF or the I/O error)
SourceRead(s, n) ==
    LET numBytes == IF s.closed THEN 0 ELSE Min(n, Len(s.data))
    IN  [bytes |-> SubSeq(s.data, 1, numBytes),
         err |-> IF s.closed THEN "closed"
                 ELSE IF numBytes < Len(s.data) THEN ""
                 ELSE IF s.err THEN "unexpected" ELSE "EOF",
         source |-> [s EXCEPT !.data = SubSeq(@, numBytes + 1, Len(@))]]

SourceClose(s) == [s EXCEPT !.closed = TRUE]

\* io.Copy(h, r.Body) reads the source to its end
Drain(s) == [s EXCEPT !.data = <<>>]

newBodyIntercept(source) == [source |-> source, sha256 |-> Sha256New]

\* mutant: the bytes of a read that also returns an error are not digested
BiReadDropOnErr(bi, n) ==
    LET rd == SourceRead(bi.source, n)
    IN  [source |-> rd.source,
         sha256 |-> IF rd.err # "" THEN bi.sha256
                    ELSE Sha256Write(bi.sha256, rd.bytes)]

BiRead(bi, n) ==
    LET rd == SourceRead(bi.source, n)
    IN  [source |-> rd.source, sha256 |-> Sha256Write(bi.sha256, rd.bytes)]

BiClose(bi) == [bi EXCEPT !.source = SourceClose(@)]

(***************************************************************************)
(* The wrapped handler, an opaque collaborator.  A behaviour of it is      *)
(* [reads, close, ops]: the sizes of the Read calls it makes on the body,  *)
(* whether it closes the body after them, and the calls it makes on the    *)
(* response writer.  A Write writes the fresh value of the invocation, or  *)
(* the byte the behaviour names.                                           *)
(***************************************************************************)
RECURSIVE HandlerReads(_, _)
HandlerReads(bi, reads) ==
    IF reads = <<>> THEN bi ELSE HandlerReads(BiRead(bi, Head(reads)), Tail(reads))

\* the reads and the Close of a behaviour, made on the body tap
HandlerBody(bi, h) ==
    IF h.close THEN BiClose(HandlerReads(bi, h.reads))
    ELSE HandlerReads(bi, h.reads)

\* the same calls made on the body itself, when no tap is in between
RECURSIVE SourceReads(_, _)
SourceReads(s, reads) ==
    IF reads = <<>> THEN s
    ELSE SourceReads(SourceRead(s, Head(reads)).source, Tail(reads))

DirectBody(s, h) ==
    IF h.close THEN SourceClose(SourceReads(s, h.reads))
    ELSE SourceReads(s, h.reads)

WriteData(o, fresh) == IF o.code = 0 THEN fresh ELSE <<o.code>>

RECURSIVE HandlerOps(_, _, _)
HandlerOps(rwi, ops, fresh) ==
    IF ops = <<>> THEN rwi
    ELSE LET o == Head(ops)
             nxt == CASE o.op = "Header" -> RwiHeaderAdd(rwi, "X-Response", o.v)
                      [] o.op = "WriteHeader" -> RwiWriteHeader(rwi, o.code)
                      [] OTHER -> RwiWrite(rwi, WriteData(o, fresh))
         IN  HandlerOps(nxt, Tail(ops), fresh)

\* the same calls made on the real sink, when no tap is in between
RECURSIVE DirectOps(_, _, _)
DirectOps(d, ops, fresh) ==
    IF ops = <<>> THEN d
    ELSE LET o == Head(ops)
             nxt == CASE o.op = "Header" ->
                             [d EXCEPT !.header = HeaderAdd(@, "X-Response", o.v)]
                      [] o.op = "WriteHeader" -> DestWriteHeader(d, o.code)
                      [] OTHER -> DestWrite(d, WriteData(o, fresh))
         IN  DirectOps(nxt, Tail(ops), fresh)


(***************************************************************************)
(* State.                                                                  *)
(***************************************************************************)
VARIABLES
    lifetime,     \* p.lifetime
    cache,        \* p.cache: key -> node (a function on the keys present)
    cacheOldest,  \* p.cacheOldest: a node, or Nil
    cacheNewest,  \* p.cacheNewest: a node, or Nil
    inProgress,   \* p.inProgress: the set of keys mapped to true
    nodes,        \* the heap of savedResult values: node n is nodes[n]
    now,          \* time.Now()
    pc,           \* per request: its position in ServeHTTP / serveHTTP
    req,          \* per request: the *http.Request
    save,         \* per request: the savedResult assembled after the handler
    out,          \* per request: what its caller got (error kind and the
                  \* header it names, response)
    call,         \* per request: number of its handler invocation, 0 if none
    calls,        \* handler invocations so far
    active,       \* per request: the requests inside ServeHTTP when it entered
    ran,          \* per request: the behaviour its handler invocation showed
    rBody,        \* per request: r.Body, the source under the tap
    swept         \* history: every map deletion removeExpired has made

vars == <<lifetime, cache, cacheOldest, cacheNewest, inProgress, nodes, now,
          pc, req, save, out, call, calls, active, ran, rBody, swept>>

potency == <<lifetime, cache, cacheOldest, cacheNewest, inProgress, nodes>>

(***************************************************************************)
(* Potency.read, NumCached and the map operations of Go.                   *)
(***************************************************************************)
read(c, key) == IF key \in DOMAIN c THEN c[key] ELSE Nil

MapSet(c, key, n) == (key :> n) @@ c

MapDelete(c, key) == [k \in DOMAIN c \ {key} |-> c[k]]

NumCached == Cardinality(DOMAIN cache)

NoReq ==
    [idemKey |-> <<>>, method |-> "", url |-> "", header |-> <<>>,
     body |-> [data |-> <<>>, err |-> FALSE]]

NoSave ==
    [key |-> <<>>, method |-> "", url |-> "", requestHeader |-> <<>>,
     sha256 |-> Sha256Sum(Sha256New), statusCode |-> 0,
     responseHeader |-> <<>>, responseBody |-> <<>>, added |-> 0, newer |-> Nil]

NoOut == [kind |-> "", header |-> "", resp |-> NewDest]

NoBehaviour == [reads |-> <<>>, close |-> FALSE, ops |-> <<>>]

\* NewPotency
Init ==
    /\ lifetime = DefaultLifetime
    /\ cache = <<>>
    /\ cacheOldest = Nil
    /\ cacheNewest = Nil
    /\ inProgress = {}
    /\ nodes = <<>>
    /\ now = 0
    /\ pc = [r \in Reqs |-> "idle"]
    /\ req = [r \in Reqs |-> NoReq]
    /\ save = [r \in Reqs |-> NoSave]
    /\ out = [r \in Reqs |-> NoOut]
    /\ call = [r \in Reqs |-> 0]
    /\ calls = 0
    /\ active = [r \in Reqs |-> {}]
    /\ ran = [r \in Reqs |-> NoBehaviour]
    /\ rBody = [r \in Reqs |-> Open(NoReq.body)]
    /\ swept = {}

(***************************************************************************)
(* serveHTTP, up to the cache lookup.                                      *)
(***************************************************************************)
\* mutant: the suffix test is missing
ValidKeyNoSuffix(val) == ~(Len(val) < 2 \/ Head(val) # Q)

ValidKey(val) == ~(Len(val) < 2 \/ Head(val) # Q \/ val[Len(val)] # Q)

KeyOf(val) == SubSeq(val, 2, Len(val) - 1)

\* io.Copy(h, r.Body): the digest of all the bytes, or the I/O error
DrainSum(body) ==
    IF body.err THEN [err |-> TRUE, sum |-> Sha256Sum(Sha256New)]
    ELSE [err |-> FALSE, sum |-> Sha256Sum(Sha256Write(Sha256New, body.data))]

RECURSIVE HeaderMismatchAt(_, _, _)
HeaderMismatchAt(sv, r, i) ==
    IF i > Len(criticalHeaders) THEN FALSE
    ELSE IF HeaderGet(sv.requestHeader, criticalHeaders[i])
              # HeaderGet(r.header, criticalHeaders[i]) THEN TRUE
    ELSE HeaderMismatchAt(sv, r, i + 1)

\* mutant: the body is compared first
HitErrorBodyFirst(sv, r) ==
    IF DrainSum(r.body).err THEN "BadRequest"
    ELSE IF DrainSum(r.body).sum # sv.sha256 THEN "BodyMismatch"
    ELSE IF r.method # sv.method THEN "MethodMismatch"
    ELSE IF r.url # sv.url THEN "URLMismatch"
    ELSE IF HeaderMismatchAt(sv, r, 1) THEN "HeaderMismatch"
    ELSE ""

\* mutant: the URL comparison is missing
HitErrorNoURL(sv, r) ==
    IF r.method # sv.method THEN "MethodMismatch"
    ELSE IF HeaderMismatchAt(sv, r, 1) THEN "HeaderMismatch"
    ELSE IF DrainSum(r.body).err THEN "BadRequest"
    ELSE IF DrainSum(r.body).sum # sv.sha256 THEN "BodyMismatch"
    ELSE ""

\* the error of the hit path, "" when the request matches the saved one
HitError(sv, r) ==
    IF r.method # sv.method THEN "MethodMismatch"
    ELSE IF r.url # sv.url THEN "URLMismatch"
    ELSE IF HeaderMismatchAt(sv, r, 1) THEN "HeaderMismatch"
    ELSE IF DrainSum(r.body).err THEN "BadRequest"
    ELSE IF DrainSum(r.body).sum # sv.sha256 THEN "BodyMismatch"
    ELSE ""

\* the header that the HeaderMismatch error names: the first one that differs
RECURSIVE HeaderMismatchName(_, _, _)
HeaderMismatchName(sv, r, i) ==
    IF i > Len(criticalHeaders) THEN ""
    ELSE IF HeaderGet(sv.requestHeader, criticalHeaders[i])
              # HeaderGet(r.header, criticalHeaders[i]) THEN criticalHeaders[i]
    ELSE HeaderMismatchName(sv, r, i + 1)

HitHeader(sv, r) ==
    IF HitError(sv, r) = "HeaderMismatch" THEN HeaderMismatchName(sv, r, 1) ELSE ""

\* the hit path gets as far as io.Copy when none of the earlier returns is taken
ReachesBody(e) == e \notin {"MethodMismatch", "URLMismatch", "HeaderMismatch"}

RECURSIVE ReplayHeaders(_, _, _)
ReplayHeaders(d, h, names) ==
    IF names = {} THEN d
    ELSE LET k == CHOOSE x \in names : TRUE
         IN  ReplayHeaders(DestHeaderSet(d, k, h[k][1]), h, names \ {k})

Replay(sv) ==
    DestWrite(DestWriteHeader(ReplayHeaders(NewDest, sv.responseHeader,
                                            DOMAIN sv.responseHeader),
                              sv.statusCode),
              sv.responseBody)


(***************************************************************************)
(* The in-flight tracker.                                                  *)
(***************************************************************************)
\* mutant: the membership test is missing
lockKeyNoTest(ip, key) == [err |-> FALSE, inProgress |-> ip \cup {key}]

\* mutant: the rejected caller clears the entry
lockKeyClears(ip, key) ==
    IF key \in ip THEN [err |-> TRUE, inProgress |-> ip \ {key}]
    ELSE [err |-> FALSE, inProgress |-> ip \cup {key}]

lockKey(ip, key) ==
    IF key \in ip THEN [err |-> TRUE, inProgress |-> ip]
    ELSE [err |-> FALSE, inProgress |-> ip \cup {key}]

unlockKey(ip, key) == ip \ {key}

(***************************************************************************)
(* The result cache: write and removeExpired.                              *)
(***************************************************************************)
\* time.Time.Before
Before(t, u) == t < u

\* the loop of removeExpired from iter on; log collects, for every delete,
\* the key, the node the loop stands on, the node the map held, and the
\* time and cutoff of the sweep
RECURSIVE removeExpiredFrom(_, _, _, _, _, _, _)
removeExpiredFrom(ns, c, oldest, iter, t, cutoff, log) ==
    IF iter # Nil /\ Before(ns[iter].added, cutoff)
    THEN removeExpiredFrom(ns, MapDelete(c, ns[iter].key), iter, ns[iter].newer,
                           t, cutoff,
                           log \cup {[key |-> ns[iter].key, iter |-> iter,
                                      held |-> read(c, ns[iter].key),
                                      now |-> t, cutoff |-> cutoff]})
    ELSE [cache |-> c, cacheOldest |-> oldest, swept |-> log]

\* mutant: the sweep is missing
removeExpiredNone(ns, c, oldest, t, life) ==
    [cache |-> c, cacheOldest |-> oldest, swept |-> {}]

removeExpired(ns, c, oldest, t, life) ==
    removeExpiredFrom(ns, c, oldest, oldest, t, t - life, {})

\* mutant: the newer link of the old tail is not set
writeNoLink(ns, c, oldest, newest, sr, t, life) ==
    LET n   == Len(ns) + 1
        ns1 == Append(ns, [sr EXCEPT !.added = t])
        c1  == MapSet(c, sr.key, n)
        o1  == IF oldest = Nil THEN n ELSE oldest
        rm  == removeExpired(ns1, c1, o1, t, life)
    IN  [nodes |-> ns1, cache |-> rm.cache, cacheOldest |-> rm.cacheOldest,
         cacheNewest |-> n, swept |-> rm.swept]

\* mutant: the entry is stamped with a clock that runs backwards
writeBackdated(ns, c, oldest, newest, sr, t, life) ==
    LET n   == Len(ns) + 1
        ns1 == Append(ns, [sr EXCEPT !.added = MaxClock - t])
        ns2 == IF newest # Nil THEN [ns1 EXCEPT ![newest].newer = n] ELSE ns1
        c1  == MapSet(c, sr.key, n)
        o1  == IF oldest = Nil THEN n ELSE oldest
        rm  == removeExpired(ns2, c1, o1, t, life)
    IN  [nodes |-> ns2, cache |-> rm.cache, cacheOldest |-> rm.cacheOldest,
         cacheNewest |-> n, swept |-> rm.swept]

\* write(sr) at time t: the state of the cache after it
write(ns, c, oldest, newest, sr, t, life) ==
    LET n   == Len(ns) + 1
        ns1 == Append(ns, [sr EXCEPT !.added = t])
        ns2 == IF newest # Nil THEN [ns1 EXCEPT ![newest].newer = n] ELSE ns1
        c1  == MapSet(c, sr.key, n)
        o1  == IF oldest = Nil THEN n ELSE oldest
        rm  == removeExpired(ns2, c1, o1, t, life)
    IN  [nodes |-> ns2, cache |-> rm.cache, cacheOldest |-> rm.cacheOldest,
         cacheNewest |-> n, swept |-> rm.swept]

(***************************************************************************)
(* Actions.                                                                *)
(***************************************************************************)
Key(r) == KeyOf(req[r].idemKey)

Inside(q) == pc[q] \notin {"idle", "done"}

\* what the server sends when the handler has returned
Finish(d) == DestWriteHeader(d, StatusOK)

\* ServeHTTP is entered with request i: key validation, the cache lookup and,
\* on a hit, the comparison and the replay
Enter(r, i) ==
    /\ pc[r] = "idle"
    /\ \A q \in Reqs : q < r => pc[q] # "idle"
    /\ req' = [req EXCEPT ![r] = i]
    /\ active' = [active EXCEPT ![r] = {q \in Reqs : Inside(q)}]
    /\ LET val == i.idemKey
           saved == read(cache, KeyOf(val))
       IN  IF val = <<>>
           THEN /\ pc' = [pc EXCEPT ![r] = "forward"]
                /\ out' = out
                /\ rBody' = [rBody EXCEPT ![r] = Open(i.body)]
           ELSE IF ~ValidKey(val)
           THEN /\ pc' = [pc EXCEPT ![r] = "done"]
                /\ out' = [out EXCEPT ![r].kind = "InvalidKey"]
                /\ rBody' = [rBody EXCEPT ![r] = Open(i.body)]
           ELSE IF saved # Nil
           THEN /\ pc' = [pc EXCEPT ![r] = "done"]
                /\ out' = [out EXCEPT ![r] =
                             IF HitError(nodes[saved], i) # ""
                             THEN [kind |-> HitError(nodes[saved], i),
                                   header |-> HitHeader(nodes[saved], i),
                                   resp |-> NewDest]
                             ELSE [kind |-> "replay", header |-> "",
                                   resp |-> Replay(nodes[saved])]]
                /\ rBody' = [rBody EXCEPT ![r] =
                              IF ReachesBody(HitError(nodes[saved], i))
                              THEN Drain(Open(i.body)) ELSE Open(i.body)]
           ELSE /\ pc' = [pc EXCEPT ![r] = "lock"]
                /\ out' = out
                /\ rBody' = [rBody EXCEPT ![r] = Open(i.body)]
    /\ UNCHANGED <<potency, now, save, call, calls, ran, swept>>

\* no Idempotency-Key: the handler is called directly
Forward(r, h) ==
    /\ pc[r] = "forward"
    /\ pc' = [pc EXCEPT ![r] = "done"]
    /\ calls' = calls + 1
    /\ call' = [call EXCEPT ![r] = calls + 1]
    /\ out' = [out EXCEPT ![r] =
                 [kind |-> "forward", header |-> "",
                  resp |-> Finish(DirectOps(NewDest, h.ops, <<calls + 1>>))]]
    /\ ran' = [ran EXCEPT ![r] = h]
    /\ rBody' = [rBody EXCEPT ![r] = DirectBody(@, h)]
    /\ UNCHANGED <<potency, now, req, save, active, swept>>

Lock(r) ==
    /\ pc[r] = "lock"
    /\ LET l == lockKey(inProgress, Key(r))
       IN  /\ inProgress' = l.inProgress
           /\ IF l.err
              THEN /\ pc' = [pc EXCEPT ![r] = "done"]
                   /\ out' = [out EXCEPT ![r].kind = "Conflict"]
              ELSE /\ pc' = [pc EXCEPT ![r] = "handler"]
                   /\ out' = out
    /\ UNCHANGED <<lifetime, cache, cacheOldest, cacheNewest, nodes, now, req,
                   save, call, calls, active, ran, rBody, swept>>

RECURSIVE CriticalOf(_, _)
CriticalOf(h, i) ==
    IF i > Len(criticalHeaders) THEN <<>>
    ELSE HeaderSet(CriticalOf(h, i + 1), criticalHeaders[i],
                   HeaderGet(h, criticalHeaders[i]))

\* the savedResult assembled from the request and the two taps
Assemble(r, bi, rwi) ==
    [key |-> KeyOf(r.idemKey), method |-> r.method, url |-> r.url,
     requestHeader |-> CriticalOf(r.header, 1),
     sha256 |-> Sha256Sum(bi.sha256),
     statusCode |-> rwi.statusCode, responseHeader |-> RwiHeader(rwi),
     responseBody |-> rwi.buf, added |-> 0, newer |-> Nil]

\* the handler runs behind the taps and returns
HandlerReturn(r, h) ==
    /\ pc[r] = "handler"
    /\ LET bi  == HandlerBody(newBodyIntercept(rBody[r]), h)
           rwi == HandlerOps(newResponseWriterIntercept(NewDest), h.ops,
                             <<calls + 1>>)
       IN  /\ save' = [save EXCEPT ![r] = Assemble(req[r], bi, rwi)]
           /\ out' = [out EXCEPT ![r] =
                        [kind |-> "executed", header |-> "",
                         resp |-> Finish(rwi.dest)]]
           /\ rBody' = [rBody EXCEPT ![r] = bi.source]
    /\ ran' = [ran EXCEPT ![r] = h]
    /\ pc' = [pc EXCEPT ![r] = "write"]
    /\ calls' = calls + 1
    /\ call' = [call EXCEPT ![r] = calls + 1]
    /\ UNCHANGED <<potency, now, req, active, swept>>

\* mutant: unlockKey is called after write instead of being deferred
HandlerPanicNoDefer(r) ==
    /\ pc[r] = "handler"
    /\ pc' = [pc EXCEPT ![r] = "done"]
    /\ calls' = calls + 1
    /\ call' = [call EXCEPT ![r] = calls + 1]
    /\ out' = [out EXCEPT ![r].kind = "panic"]
    /\ UNCHANGED <<potency, now, req, save, active, ran, rBody, swept>>

\* the handler panics: serveHTTP unwinds through the deferred unlockKey
HandlerPanic(r) ==
    /\ pc[r] = "handler"
    /\ pc' = [pc EXCEPT ![r] = "unlock"]
    /\ calls' = calls + 1
    /\ call' = [call EXCEPT ![r] = calls + 1]
    /\ out' = [out EXCEPT ![r].kind = "panic"]
    /\ UNCHANGED <<potency, now, req, save, active, ran, rBody, swept>>

\* mutant: the key is released where the result should be stored
WriteUnlocksFirst(r) ==
    /\ pc[r] = "write"
    /\ inProgress' = unlockKey(inProgress, Key(r))
    /\ pc' = [pc EXCEPT ![r] = "unlock"]
    /\ UNCHANGED <<lifetime, cache, cacheOldest, cacheNewest, nodes, now, req,
                   save, out, call, calls, active, ran, rBody, swept>>

Write(r) ==
    /\ pc[r] = "write"
    /\ LET w == write(nodes, cache, cacheOldest, cacheNewest, save[r], now,
                      lifetime)
       IN  /\ nodes' = w.nodes
           /\ cache' = w.cache
           /\ cacheOldest' = w.cacheOldest
           /\ cacheNewest' = w.cacheNewest
           /\ swept' = swept \cup w.swept
    /\ pc' = [pc EXCEPT ![r] = "unlock"]
    /\ UNCHANGED <<lifetime, inProgress, now, req, save, out, call, calls, active,
                   ran, rBody>>

\* the deferred unlockKey, then serveHTTP returns
Unlock(r) ==
    /\ pc[r] = "unlock"
    /\ inProgress' = unlockKey(inProgress, Key(r))
    /\ pc' = [pc EXCEPT ![r] = "done"]
    /\ UNCHANGED <<lifetime, cache, cacheOldest, cacheNewest, nodes, now, req,
                   save, out, call, calls, active, ran, rBody, swept>>

\* mutant: SetLifetime sweeps at once with the new lifetime
SetLifetimeSweeps(l) ==
    /\ lifetime' = l
    /\ LET rm == removeExpired(nodes, cache, cacheOldest, now, l)
       IN  /\ cache' = rm.cache
           /\ cacheOldest' = rm.cacheOldest
           /\ swept' = swept \cup rm.swept
    /\ UNCHANGED <<cacheNewest, inProgress, nodes, now, pc, req, save, out, call,
                   calls, active, ran, rBody>>

SetLifetime(l) ==
    /\ lifetime' = l
    /\ UNCHANGED <<cache, cacheOldest, cacheNewest, inProgress, nodes, now, pc,
                   req, save, out, call, calls, active, ran, rBody, swept>>

Tick ==
    /\ now < MaxClock
    /\ now' = now + 1
    /\ UNCHANGED <<potency, pc, req, save, out, call, calls, active, ran, rBody, swept>>


(***************************************************************************)
(* Inputs: the requests that arrive and the behaviours of the handler.     *)
(***************************************************************************)
Quoted(k) == <<Q>> \o k \o <<Q>>

HeaderOf(accept, authorization, xtest) ==
    LET h1 == IF accept = "" THEN <<>> ELSE HeaderSet(<<>>, "Accept", accept)
        h2 == IF authorization = "" THEN h1
              ELSE HeaderSet(h1, "Authorization", authorization)
    IN  IF xtest = "" THEN h2 ELSE HeaderSet(h2, "X-Test", xtest)

Request(val, method, url, accept, authorization, xtest, data, err) ==
    [idemKey |-> val, method |-> method, url |-> url,
     header |-> HeaderOf(accept, authorization, xtest),
     body |-> [data |-> data, err |-> err]]

\* the request of TestPOST under key k
Base(k) == Request(Quoted(k), "POST", "/", "", "", "", <<1, 2>>, FALSE)

KeyA == <<"a">>
KeyB == <<"b">>

\* same fingerprint, two keys
PoolKeys == {Base(KeyA), Base(KeyB)}

\* key a with every component of the fingerprint varied, and key b
PoolPrints ==
    {Base(KeyA), Base(KeyB),
     Request(Quoted(KeyA), "DELETE", "/", "", "", "", <<1, 2>>, FALSE),
     Request(Quoted(KeyA), "POST", "/x", "", "", "", <<1, 2>>, FALSE),
     Request(Quoted(KeyA), "POST", "/", "text/xml", "", "", <<1, 2>>, FALSE),
     Request(Quoted(KeyA), "POST", "/", "", "Bearer xyz", "", <<1, 2>>, FALSE),
     Request(Quoted(KeyA), "POST", "/", "", "", "foo", <<1, 2>>, FALSE),
     Request(Quoted(KeyA), "POST", "/", "", "", "", <<1>>, FALSE),
     Request(Quoted(KeyA), "POST", "/", "", "", "", <<1, 2>>, TRUE),
     Request(Quoted(KeyA), "DELETE", "/x", "", "", "", <<1>>, FALSE),
     Request(<<>>, "POST", "/", "", "", "", <<1, 2>>, FALSE),
     Request(KeyA, "POST", "/", "", "", "", <<1, 2>>, FALSE)}

OpHeader(v) == [op |-> "Header", code |-> 0, v |-> v]
OpWriteHeader(code) == [op |-> "WriteHeader", code |-> code, v |-> ""]
OpWrite == [op |-> "Write", code |-> 0, v |-> ""]
OpWriteByte(b) == [op |-> "Write", code |-> b, v |-> ""]

\* the handler of the tests: io.ReadAll, one header, the fresh value
TestHandler ==
    [reads |-> <<2, 1>>, close |-> FALSE, ops |-> <<OpHeader("bar"), OpWrite>>]

HandlersTest == {TestHandler}

\* also a handler that reads part of the body and sets an error status
HandlersAny ==
    {TestHandler,
     [reads |-> <<1>>, close |-> FALSE, ops |-> <<OpWriteHeader(500), OpWrite>>]}

(***************************************************************************)
(* Specifications.                                                         *)
(***************************************************************************)
\* the steps of a request after it has entered
Steps(r, H) ==
    \/ Lock(r)
    \/ \E h \in H : HandlerReturn(r, h)
    \/ HandlerPanic(r)
    \/ Write(r)
    \/ Unlock(r)

\* a client that sends its next request when the previous one has been answered
EnterAlone(r, i) ==
    /\ \A q \in Reqs : ~Inside(q)
    /\ Enter(r, i)

\* concurrent requests under two keys, the clock and SetLifetime
Next ==
    \/ \E r \in Conc : (\E i \in PoolKeys : Enter(r, i)) \/ Steps(r, HandlersTest)
    \/ Tick
    \/ \E l \in Lifetimes : SetLifetime(l)

Spec == Init /\ [][Next]_vars

\* inserts one after another under two keys, the clock and SetLifetime
NextSerial ==
    \/ \E r \in Reqs :
           (\E i \in PoolKeys : EnterAlone(r, i)) \/ Steps(r, HandlersTest)
    \/ Tick
    \/ \E l \in Lifetimes : SetLifetime(l)

SpecSerial == Init /\ [][NextSerial]_vars

\* sequential requests that differ in their fingerprint, handlers of any kind
NextPrints ==
    \E r \in Reqs :
        \/ \E i \in PoolPrints : EnterAlone(r, i)
        \/ \E h \in HandlersAny : Forward(r, h)
        \/ Steps(r, HandlersAny)

SpecPrints == Init /\ [][NextPrints]_vars

\* every Idempotency-Key value of up to three characters over " and a
PoolFormat ==
    {Request(val, "POST", "/", "", "", "", <<1, 2>>, FALSE) :
        val \in {<<>>, <<Q>>, <<"a">>} \cup ({Q, "a"} \X {Q, "a"})
                 \cup ({Q, "a"} \X {Q, "a"} \X {Q, "a"})}

\* sequential requests whose key values have every form
NextFormat ==
    \E r \in Reqs :
        \/ \E i \in PoolFormat : EnterAlone(r, i)
        \/ \E h \in HandlersTest : Forward(r, h)
        \/ Steps(r, HandlersTest)

SpecFormat == Init /\ [][NextFormat]_vars

\* handlers that use the two taps in every way: all, part or none of the
\* body read, the body closed, a header with two values, WriteHeader called
\* never, once, twice, or after a Write
HandlersTaps ==
    {TestHandler,
     [reads |-> <<2>>, close |-> FALSE,
      ops |-> <<OpHeader("bar"), OpHeader("baz"), OpWrite>>],
     [reads |-> <<1, 1>>, close |-> FALSE,
      ops |-> <<OpWriteHeader(404), OpWriteHeader(500), OpWrite, OpWriteByte(7)>>],
     [reads |-> <<3>>, close |-> TRUE,
      ops |-> <<OpWriteByte(7), OpWriteHeader(500), OpWrite>>],
     [reads |-> <<1>>, close |-> FALSE, ops |-> <<>>],
     [reads |-> <<>>, close |-> TRUE, ops |-> <<>>]}

\* key a with a body that ends in EOF, key b with one that ends in an error
PoolTaps ==
    {Base(KeyA),
     Request(Quoted(KeyB), "POST", "/", "", "", "", <<1, 2>>, TRUE)}

\* sequential requests and retries, handlers of every kind
NextTaps ==
    \E r \in Reqs :
        \/ \E i \in PoolTaps : EnterAlone(r, i)
        \/ Steps(r, HandlersTaps)

SpecTaps == Init /\ [][NextTaps]_vars

\* key a with every combination of method, URL, Accept, Authorization and
\* body, and with a body that cannot be read
PoolOrder ==
    {Request(Quoted(KeyA), m, u, a, z, "", d, FALSE) :
        m \in {"POST", "DELETE"}, u \in {"/", "/x"}, a \in {"", "text/xml"},
        z \in {"", "Bearer xyz"}, d \in {<<1, 2>>, <<1>>}}
    \cup {Request(Quoted(KeyA), "POST", "/", "", "", "", <<1, 2>>, TRUE),
          Request(Quoted(KeyA), "DELETE", "/", "", "", "", <<1, 2>>, TRUE)}

\* the request of TestPOST is stored, then retries that differ from it in
\* any number of components arrive one after another
NextOrder ==
    \E r \in Reqs :
        \/ \E i \in (IF cache = <<>> THEN {Base(KeyA)} ELSE PoolOrder) :
               EnterAlone(r, i)
        \/ Steps(r, HandlersTest)

SpecOrder == Init /\ [][NextOrder]_vars


(***************************************************************************)
(* Definitions shared by the properties.                                   *)
(***************************************************************************)
Keys == {KeyA, KeyB}

\* the requests that have entered with the valid key k
With(k) == {r \in Reqs : pc[r] # "idle" /\ req[r].idemKey = Quoted(k)}

\* the requests whose handler invocation has started under key k
Invoked(k) == {r \in With(k) : call[r] # 0}

\* the requests that hold the in-flight slot of key k
Holding(k) == {r \in With(k) : pc[r] \in {"handler", "write", "unlock"}}

\* a sweep has removed an entry of key k from the map
Removed(k) == \E d \in swept : d.key = k /\ d.held # Nil

Panicked(k) == \E r \in With(k) : out[r].kind = "panic"

(***************************************************************************)
(* C1. At-most-once execution: while no entry of key k has been removed    *)
(* by a sweep and no handler invocation has terminated abnormally, the     *)
(* requests that carry k with one and the same fingerprint invoke the      *)
(* handler at most once, in every interleaving.                            *)
(***************************************************************************)
C1_AtMostOnce ==
    \A k \in Keys :
        (/\ ~Removed(k)
         /\ ~Panicked(k)
         /\ \A r1, r2 \in With(k) : req[r1] = req[r2])
        => Cardinality(Invoked(k)) <= 1

(***************************************************************************)
(* C2. Conflict detection: when the only two requests with key k overlap   *)
(* (the second enters while the first is inside) and both have been        *)
(* answered, exactly one of them has executed the handler.  (The claim     *)
(* adds that the other one gets Conflict; the formula states the part      *)
(* about the handler, which is the part the code breaks.)                  *)
(***************************************************************************)
C2_ExactlyOneExecutes ==
    \A k \in Keys : \A r1, r2 \in With(k) :
        (/\ r1 < r2
         /\ With(k) = {r1, r2}
         /\ r1 \in active[r2]
         /\ pc[r1] = "done" /\ pc[r2] = "done"
         /\ ~Panicked(k))
        => Cardinality({r \in {r1, r2} : out[r].kind = "executed"}) = 1

(***************************************************************************)
(* C3. One stored result per key, never overwritten: as long as the map    *)
(* holds a savedResult under key k, no step replaces it by another one.    *)
(***************************************************************************)
C3_NeverOverwritten ==
    [][\A k \in DOMAIN cache :
          k \in DOMAIN cache' => cache'[k] = cache[k]]_vars


\* request r takes the step from pc value a to pc value b
Step(r, a, b) == pc[r] = a /\ pc'[r] = b

\* request r leaves lockKey in this step
Locks(r) == pc[r] = "lock" /\ pc'[r] # "lock"

(***************************************************************************)
(* C4. Entries are removed only when expired: whenever removeExpired,      *)
(* run with a positive lifetime, deletes a key from the map, the age       *)
(* (now - added) of the entry the map holds under that key at that moment  *)
(* exceeds the lifetime (now - cutoff).                                    *)
(***************************************************************************)
C4_OnlyExpiredRemoved ==
    \A d \in swept :
        (d.held # Nil /\ d.now - d.cutoff > 0)
        => d.now - nodes[d.held].added > d.now - d.cutoff

(***************************************************************************)
(* C5. A completed miss-path execution is cached: when write returns and   *)
(* the lifetime is positive, the map holds under the request's key the     *)
(* savedResult assembled from that request and its captured response.      *)
(***************************************************************************)
C5_CachedAfterWrite ==
    [][\A r \in Reqs :
          (Step(r, "write", "unlock") /\ lifetime > 0)
          => /\ Key(r) \in DOMAIN cache'
             /\ nodes'[cache'[Key(r)]] = [save[r] EXCEPT !.added = now]]_vars

(***************************************************************************)
(* C8. Per-key mutual exclusion: at most one request per key is between    *)
(* lockKey and unlockKey (in the handler or in the following write), and   *)
(* a request that reaches lockKey while another one holds the key leaves   *)
(* it at once with Conflict, without invoking the handler.                 *)
(***************************************************************************)
C8_AtMostOneHolder == \A k \in Keys : Cardinality(Holding(k)) <= 1

C8_SecondRejected ==
    \A r \in Reqs :
        (Locks(r) /\ Holding(Key(r)) # {})
        => (pc'[r] = "done" /\ out'[r].kind = "Conflict" /\ call'[r] = 0)

\* C8: at most one holder per key, and a second request is rejected at once
C8_MutualExclusion == [](C8_AtMostOneHolder) /\ [][C8_SecondRejected]_vars

C8_Witness ==
    \E r1, r2 \in Reqs :
        /\ pc[r1] = "handler"
        /\ pc[r2] = "done" /\ out[r2].kind = "Conflict"
        /\ req[r1].idemKey = req[r2].idemKey

(***************************************************************************)
(* C9. No permanent lockout: a key is in the in-flight set only while a    *)
(* request holds it, also after a handler has panicked; a panicked         *)
(* execution stores nothing; and a request that reaches lockKey while no   *)
(* request holds its key goes on to the handler instead of Conflict.       *)
(***************************************************************************)
C9_Released == \A k \in inProgress : Holding(k) # {}

C9_PanicStoresNothing ==
    Len(nodes) = Cardinality({r \in Reqs : /\ pc[r] \in {"unlock", "done"}
                                          /\ out[r].kind = "executed"})

C9_Proceeds ==
    \A r \in Reqs :
        (Locks(r) /\ Holding(Key(r)) = {})
        => (pc'[r] = "handler" /\ Key(r) \in inProgress')

\* C9: the slot is released on every exit path, so the key is never locked out
C9_NoLockout ==
    [](C9_Released /\ C9_PanicStoresNothing) /\ [][C9_Proceeds]_vars

C9_Witness ==
    \E r1, r2 \in Reqs :
        /\ pc[r1] = "done" /\ out[r1].kind = "panic"
        /\ req[r2].idemKey = req[r1].idemKey
        /\ r1 < r2 /\ r1 \notin active[r2]
        /\ out[r2].kind = "executed"
        /\ Key(r1) \notin inProgress

(***************************************************************************)
(* C10. Expiry on insert: when write returns, no entry of the map is older *)
(* than the lifetime; an insert under a key that was never stored, made    *)
(* when every stored entry is older than the lifetime, leaves its own      *)
(* entry as the only one (NumCached is 1); and a request whose key is not  *)
(* in the map is a miss, which executes when no request holds its key.     *)
(***************************************************************************)
C10_NoExpiredLeft ==
    \A r \in Reqs :
        Step(r, "write", "unlock")
        => \A k \in DOMAIN cache' : ~(nodes'[cache'[k]].added < now - lifetime)

C10_OnlySecondLeft ==
    \A r \in Reqs :
        (/\ Step(r, "write", "unlock")
         /\ lifetime >= 0
         /\ \A n \in 1..Len(nodes) : /\ nodes[n].key # Key(r)
                                     /\ nodes[n].added < now - lifetime)
        => (DOMAIN cache' = {Key(r)} /\ Cardinality(DOMAIN cache') = 1)

C10_LaterMiss ==
    \A r \in Reqs :
        /\ (pc[r] = "idle" /\ pc'[r] # "idle" /\ ValidKey(req'[r].idemKey)
              /\ KeyOf(req'[r].idemKey) \notin DOMAIN cache)
           => pc'[r] = "lock"
        /\ (Locks(r) /\ Holding(Key(r)) = {}) => out'[r].kind # "Conflict"

C6_RetryReplayed ==
    \A r1, r2 \in Reqs :
        (/\ r1 < r2
         /\ pc[r1] = "done" /\ pc[r2] = "done"
         /\ ValidKey(req[r1].idemKey)
         /\ req[r2] = req[r1]
         /\ ~req[r1].body.err
         /\ out[r1].kind = "executed"
         /\ \A q \in Reqs : (q < r2 /\ q # r1) => req[q].idemKey # req[r1].idemKey)
        => /\ call[r2] = 0
           /\ out[r2].kind = "replay"
           /\ out[r2].resp.status = out[r1].resp.status
           /\ out[r2].resp.body = out[r1].resp.body

(***************************************************************************)
(* C7. Fingerprint enforcement: a request whose key is in the map and      *)
(* whose method, URL, Accept, Authorization or body digest differs from    *)
(* the stored one is answered with the error of a differing component,     *)
(* invokes no handler, replays nothing and leaves the cache, the chain     *)
(* and the in-flight set as they are; a request that differs in none of    *)
(* them (X-Test is not one) and whose body can be read is replayed.        *)
(***************************************************************************)
Differing(sv, i) ==
    {e \in {"MethodMismatch", "URLMismatch", "HeaderMismatch", "BodyMismatch"} :
        \/ e = "MethodMismatch" /\ i.method # sv.method
        \/ e = "URLMismatch" /\ i.url # sv.url
        \/ e = "HeaderMismatch" /\
              \E h \in {"Accept", "Authorization"} :
                  HeaderGet(i.header, h) # HeaderGet(sv.requestHeader, h)
        \/ e = "BodyMismatch" /\ ~i.body.err /\
              [sha256 |-> i.body.data] # sv.sha256}

C7_OnHit(r) ==
    LET i  == req'[r]
        sv == nodes[cache[KeyOf(i.idemKey)]]
        D  == Differing(sv, i)
    IN  /\ D # {} =>
              /\ pc'[r] = "done"
              /\ out'[r].kind \in D
              /\ out'[r].resp = NewDest
              /\ call'[r] = 0 /\ calls' = calls
              /\ UNCHANGED potency
        /\ (D = {} /\ ~i.body.err) =>
              /\ out'[r].kind = "replay"
              /\ call'[r] = 0 /\ calls' = calls

\* C7: every hit obeys C7_OnHit (mismatch error and no effect, or replay)
C7_FingerprintEnforced ==
    [][\A r \in Reqs :
          (/\ pc[r] = "idle" /\ pc'[r] # "idle"
           /\ ValidKey(req'[r].idemKey)
           /\ KeyOf(req'[r].idemKey) \in DOMAIN cache)
          => C7_OnHit(r)]_vars

C7_Witness ==
    \E r1, r2, r3 \in Reqs :
        /\ out[r1].kind = "executed"
        /\ out[r2].kind = "BodyMismatch"
        /\ out[r3].kind = "replay"
        /\ HeaderGet(req[r3].header, "X-Test") = "foo"
        /\ HeaderGet(req[r1].header, "X-Test") = ""
        /\ req[r1].idemKey = req[r2].idemKey /\ req[r1].idemKey = req[r3].idemKey


(***************************************************************************)
(* C11. Key format: a request whose Idempotency-Key value is non-empty and *)
(* is shorter than 2 characters, or does not start or does not end with a  *)
(* double quote, is answered with InvalidKey, invokes no handler and       *)
(* leaves the cache and the in-flight set as they are; every value of      *)
(* length >= 2 with a quote at both ends (the value "" included) is        *)
(* accepted, and the key that is looked up, locked and stored is the value *)
(* without its first and last character.                                   *)
(***************************************************************************)
Rejected(val) ==
    val # <<>> /\ (Len(val) < 2 \/ val[1] # Q \/ val[Len(val)] # Q)

Accepted(val) == Len(val) >= 2 /\ val[1] = Q /\ val[Len(val)] = Q

Bare(val) == [j \in 1..(Len(val) - 2) |-> val[j + 1]]

C11_OnEnter(r) ==
    LET val == req'[r].idemKey
    IN  /\ Rejected(val) =>
              /\ pc'[r] = "done"
              /\ out'[r].kind = "InvalidKey" /\ out'[r].resp = NewDest
              /\ call'[r] = 0 /\ calls' = calls
              /\ UNCHANGED potency
        /\ Accepted(val) =>
              /\ out'[r].kind # "InvalidKey"
              /\ pc'[r] = "lock" <=> Bare(val) \notin DOMAIN cache
              /\ pc'[r] = "done" <=> Bare(val) \in DOMAIN cache

\* C11: malformed values are rejected without effect, well-formed ones are
\* accepted and their bare key is used
C11_KeyFormat ==
    [][\A r \in Reqs :
          /\ (pc[r] = "idle" /\ pc'[r] # "idle") => C11_OnEnter(r)
          /\ (Locks(r) /\ pc'[r] = "handler")
                => inProgress' = inProgress \cup {Bare(req[r].idemKey)}
          /\ Step(r, "handler", "write") => save'[r].key = Bare(req[r].idemKey)
          /\ Step(r, "write", "unlock") => Bare(req[r].idemKey) \in DOMAIN cache'
      ]_vars

C11_Witness ==
    \E r1, r2, r3 \in Reqs :
        /\ req[r1].idemKey = <<Q>> /\ out[r1].kind = "InvalidKey"
        /\ req[r2].idemKey = <<Q, "a">> /\ out[r2].kind = "InvalidKey"
        /\ req[r3].idemKey = <<Q, Q>> /\ out[r3].kind = "executed"
        /\ pc[r3] = "done" /\ DOMAIN cache = {<<>>}


(***************************************************************************)
(* C12. Verbatim replay: a request that hits the cache and passes every    *)
(* fingerprint check is answered with the stored status code, the stored   *)
(* body and every stored response header with all of its values; it        *)
(* invokes no handler and leaves the cache map, the chain and the          *)
(* in-flight set as they are.                                              *)
(***************************************************************************)
C12_OnReplay(r) ==
    LET sv == nodes[cache[Bare(req'[r].idemKey)]]
    IN  /\ out'[r].resp.status = sv.statusCode
        /\ out'[r].resp.body = sv.responseBody
        /\ out'[r].resp.sentHeader = sv.responseHeader
        /\ call'[r] = 0 /\ calls' = calls
        /\ UNCHANGED potency

C12_VerbatimReplay ==
    [][\A r \in Reqs :
          (pc[r] = "idle" /\ out'[r].kind = "replay") => C12_OnReplay(r)]_vars


(***************************************************************************)
(* C13. Conflict has no effect: a request that reaches lockKey while its   *)
(* key is in the in-flight set is answered with Conflict at once, invokes  *)
(* no handler, and leaves the cache, the chain and the in-flight set as    *)
(* they are; the key stays in the in-flight set, held by the execution     *)
(* that acquired it, until that execution ends, whatever a rejected        *)
(* request does afterwards.                                                *)
(***************************************************************************)
C13_NoEffect ==
    \A r \in Reqs :
        (Locks(r) /\ Key(r) \in inProgress)
        => /\ pc'[r] = "done"
           /\ out'[r].kind = "Conflict" /\ out'[r].resp = NewDest
           /\ call'[r] = 0 /\ calls' = calls
           /\ UNCHANGED potency
           /\ Holding(Key(r)) # {}
           /\ \A q \in Holding(Key(r)) : pc'[q] = pc[q]

\* the slot is given up only by the step of a request that holds it
C13_HeldUntilEnd ==
    \A k \in inProgress :
        k \notin inProgress' => \E q \in Holding(k) : Step(q, "unlock", "done")

\* a rejected request has invoked no handler and is finished
C13_Rejected ==
    \A r \in Reqs : out[r].kind = "Conflict" => (pc[r] = "done" /\ call[r] = 0)

\* C13: Conflict is answered without any effect and the holder keeps the slot
C13_ConflictNoEffect ==
    [](C13_Rejected) /\ [][C13_NoEffect /\ C13_HeldUntilEnd]_vars

C13_Witness ==
    \E r1, r2 \in Reqs :
        /\ pc[r1] = "write" /\ r1 \in active[r2]
        /\ pc[r2] = "done" /\ out[r2].kind = "Conflict" /\ call[r2] = 0
        /\ Key(r1) = Key(r2) /\ Key(r1) \in inProgress
        /\ cache = <<>>


(***************************************************************************)
(* C14. Mismatch check order: a request that hits the cache and differs    *)
(* from the stored fingerprint is answered with the error of the first     *)
(* differing component in the order method, URL, Accept, Authorization,    *)
(* body (the HeaderMismatch error names the first differing header), and   *)
(* its body is read to the end exactly when method, URL, Accept and        *)
(* Authorization all match; otherwise no byte of it is read.               *)
(***************************************************************************)
C14_OnHit(r) ==
    LET i  == req'[r]
        sv == nodes[cache[Bare(i.idemKey)]]
        m  == i.method = sv.method
        u  == i.url = sv.url
        a  == HeaderGet(i.header, "Accept") = HeaderGet(sv.requestHeader, "Accept")
        z  == HeaderGet(i.header, "Authorization")
                 = HeaderGet(sv.requestHeader, "Authorization")
        d  == [sha256 |-> i.body.data] = sv.sha256
    IN  /\ ~m => out'[r].kind = "MethodMismatch"
        /\ (m /\ ~u) => out'[r].kind = "URLMismatch"
        /\ (m /\ u /\ ~a) =>
              (out'[r].kind = "HeaderMismatch" /\ out'[r].header = "Accept")
        /\ (m /\ u /\ a /\ ~z) =>
              (out'[r].kind = "HeaderMismatch" /\ out'[r].header = "Authorization")
        /\ (m /\ u /\ a /\ z /\ ~i.body.err /\ ~d) => out'[r].kind = "BodyMismatch"
        /\ (m /\ u /\ a /\ z) => rBody'[r].data = <<>>
        /\ ~(m /\ u /\ a /\ z) => rBody'[r] = Open(i.body)

C14_CheckOrder ==
    [][\A r \in Reqs :
          (/\ pc[r] = "idle" /\ pc'[r] # "idle"
           /\ Accepted(req'[r].idemKey)
           /\ Bare(req'[r].idemKey) \in DOMAIN cache)
          => C14_OnHit(r)]_vars

C14_Witness ==
    \E r1, r2, r3 \in Reqs :
        /\ out[r1].kind = "executed" /\ req[r1] = Base(KeyA)
        /\ req[r2] = Request(Quoted(KeyA), "POST", "/x", "text/xml", "", "",
                             <<1>>, FALSE)
        /\ out[r2].kind = "URLMismatch" /\ rBody[r2].data = <<1>>
        /\ req[r3] = Request(Quoted(KeyA), "POST", "/", "text/xml", "Bearer xyz",
                             "", <<1>>, FALSE)
        /\ out[r3].kind = "HeaderMismatch" /\ out[r3].header = "Accept"
        /\ rBody[r3].data = <<1>>


(***************************************************************************)
(* C15. Sweep pointer advance: when write has run its sweep, cacheOldest   *)
(* is empty or refers to an entry that is in the map and is not expired;   *)
(* it never refers to an entry the sweep has removed from the map.         *)
(***************************************************************************)
C15_PointerAdvanced ==
    [][\A r \in Reqs :
          Step(r, "write", "unlock")
          => \/ cacheOldest' = Nil
             \/ /\ read(cache', nodes'[cacheOldest'].key) = cacheOldest'
                /\ ~Before(nodes'[cacheOldest'].added, now - lifetime)]_vars


(***************************************************************************)
(* C16. Recorded status is the first one set: when the handler returns,    *)
(* the status code of the savedResult is the status of its first           *)
(* WriteHeader call, or 200 when it made none; the captured body is the    *)
(* bytes of its Write calls in order; and the real response sink has got   *)
(* the same calls as it would have got without the tap.                    *)
(***************************************************************************)
RECURSIVE FirstStatus(_)
FirstStatus(ops) ==
    IF ops = <<>> THEN StatusOK
    ELSE IF Head(ops).op = "WriteHeader" THEN Head(ops).code
    ELSE FirstStatus(Tail(ops))

RECURSIVE Written(_, _)
Written(ops, fresh) ==
    IF ops = <<>> THEN <<>>
    ELSE (IF Head(ops).op = "Write" THEN WriteData(Head(ops), fresh) ELSE <<>>)
         \o Written(Tail(ops), fresh)

C16_FirstStatusRecorded ==
    [][\A r \in Reqs :
          Step(r, "handler", "write")
          => /\ save'[r].statusCode = FirstStatus(ran'[r].ops)
             /\ save'[r].responseBody = Written(ran'[r].ops, <<call'[r]>>)
             /\ out'[r].resp
                   = Finish(DirectOps(NewDest, ran'[r].ops, <<call'[r]>>))]_vars


(***************************************************************************)
(* C17. Chain monotonicity: in every state, under every interleaving of    *)
(* concurrent inserts, the entries met by following the newer links from   *)
(* cacheOldest have non-decreasing added times, so for every cutoff the    *)
(* entries older than it come before all the others.                       *)
(***************************************************************************)
RECURSIVE ChainFrom(_)
ChainFrom(n) == IF n = Nil THEN <<>> ELSE <<n>> \o ChainFrom(nodes[n].newer)

Cutoffs == (0 - DefaultLifetime)..MaxClock

C17_ChainMonotonic ==
    LET ch == ChainFrom(cacheOldest)
    IN  \A i, j \in 1..Len(ch) :
            i < j =>
               /\ nodes[ch[i]].added <= nodes[ch[j]].added
               /\ \A cutoff \in Cutoffs :
                      Before(nodes[ch[j]].added, cutoff)
                      => Before(nodes[ch[i]].added, cutoff)

C17_Witness ==
    \E r1, r2 \in Reqs :
        /\ r1 \in active[r2]
        /\ pc[r1] = "done" /\ pc[r2] = "done"
        /\ out[r1].kind = "executed" /\ out[r2].kind = "executed"
        /\ ChainFrom(cacheOldest) = <<1, 2>>
        /\ nodes[1].added < nodes[2].added


(***************************************************************************)
(* C18. Only an insert changes the cache: the cache map and the chain      *)
(* change only in the write step of a request; SetLifetime changes the     *)
(* lifetime and nothing else of the Potency; and an entry that is older    *)
(* than the lifetime now in force stays in the map, is counted by          *)
(* NumCached and is replayed to a matching request, until a later insert   *)
(* sweeps it.                                                              *)
(***************************************************************************)
C18_OnlyInsert ==
    <<cache, cacheOldest, cacheNewest, nodes>>' # <<cache, cacheOldest, cacheNewest, nodes>>
    => \E r \in Reqs : Step(r, "write", "unlock")

C18_SetLifetimeOnly ==
    lifetime' # lifetime
    => UNCHANGED <<cache, cacheOldest, cacheNewest, nodes, inProgress, pc, out>>

\* the entries of the map that are older than the lifetime
Overdue == {k \in DOMAIN cache : Before(nodes[cache[k]].added, now - lifetime)}

C18_OverdueReplayed ==
    \A r \in Reqs :
        (/\ pc[r] = "idle" /\ pc'[r] # "idle"
         /\ Accepted(req'[r].idemKey)
         /\ Bare(req'[r].idemKey) \in Overdue
         /\ Differing(nodes[cache[Bare(req'[r].idemKey)]], req'[r]) = {})
        => /\ out'[r].kind = "replay"
           /\ out'[r].resp.body = nodes[cache[Bare(req'[r].idemKey)]].responseBody
           /\ call'[r] = 0
           /\ NumCached' = NumCached /\ Overdue' = Overdue

\* C18: no step but an insert changes the map or the chain
C18_OnlyInsertChanges ==
    [][C18_OnlyInsert /\ C18_SetLifetimeOnly /\ C18_OverdueReplayed]_vars

C18_Witness ==
    \E r1, r2 \in Reqs :
        /\ out[r1].kind = "executed" /\ pc[r1] = "done"
        /\ out[r2].kind = "replay" /\ Key(r2) = Key(r1)
        /\ lifetime # DefaultLifetime
        /\ Overdue = {Key(r1)}
        /\ NumCached = 1 /\ swept = {}


(***************************************************************************)
(* C19. Body digest covers exactly the consumed bytes: when the handler    *)
(* returns, the digest of the savedResult is the digest of the bytes its   *)
(* Read calls returned, in order (partial reads, reads that return bytes   *)
(* together with an error, and no read at all included); the bytes left    *)
(* unread are not in it; and the original body is closed exactly when the  *)
(* handler closed the tap.                                                 *)
(***************************************************************************)
\* the bytes that Read calls of the given sizes get from the source s
RECURSIVE Consumed(_, _)
Consumed(s, reads) ==
    IF reads = <<>> THEN <<>>
    ELSE SourceRead(s, Head(reads)).bytes
         \o Consumed(SourceRead(s, Head(reads)).source, Tail(reads))

C19_DigestOfConsumed ==
    [][\A r \in Reqs :
          Step(r, "handler", "write")
          => /\ save'[r].sha256
                   = Sha256Sum(Consumed(Open(req[r].body), ran'[r].reads))
             /\ save'[r].sha256.sha256 \o rBody'[r].data = req[r].body.data
             /\ rBody'[r].closed = ran'[r].close]_vars

C19_Witness ==
    \E r1, r2 \in Reqs :
        /\ pc[r1] = "done" /\ ran[r1].reads = <<1>>
        /\ save[r1].sha256 = [sha256 |-> <<1>>] /\ rBody[r1].data = <<2>>
        /\ pc[r2] = "done" /\ ran[r2].reads = <<3>> /\ req[r2].body.err
        /\ save[r2].sha256 = [sha256 |-> <<1, 2>>] /\ rBody[r2].closed


(***************************************************************************)
(* C20. Store-before-release: an execution whose handler has returned      *)
(* inserts its result while its key is still in the in-flight set, and     *)
(* removes the key only afterwards; so from lockKey on, until a sweep      *)
(* removes the entry stored under the key, the key is in the in-flight     *)
(* set or in the cache map in every state.                                 *)
(***************************************************************************)
\* the nodes that the write of request r has inserted
InsertedBy(r) ==
    {n \in 1..Len(nodes) : /\ nodes[n].key = Key(r)
                           /\ nodes[n].responseBody = save[r].responseBody}

\* a sweep has removed the entry of r, or a later one under its key
SweptSince(r) ==
    \E n \in InsertedBy(r), d \in swept :
        d.key = Key(r) /\ d.held # Nil /\ d.held >= n

C20_NoWindow ==
    \A r \in Reqs :
        /\ pc[r] \in {"handler", "write"} => Key(r) \in inProgress
        /\ (pc[r] \in {"unlock", "done"} /\ out[r].kind = "executed")
              => \/ Key(r) \in inProgress
                 \/ Key(r) \in DOMAIN cache
                 \/ SweptSince(r)

C20_Order ==
    \A r \in Reqs :
        /\ Step(r, "write", "unlock")
              => (Key(r) \in inProgress' /\ InsertedBy(r)' # {})
        /\ (Step(r, "unlock", "done") /\ out[r].kind = "executed")
              => (InsertedBy(r) # {} /\ Key(r) \in inProgress
                    /\ Key(r) \notin inProgress')

\* C20: the result is stored before the key is released
C20_StoreBeforeRelease == [](C20_NoWindow) /\ [][C20_Order]_vars

C20_Witness ==
    \E r1, r2 \in Reqs :
        /\ pc[r1] = "unlock" /\ out[r1].kind = "executed"
        /\ Key(r1) \in inProgress /\ Key(r1) \in DOMAIN cache
        /\ pc[r2] = "done" /\ out[r2].kind = "executed"
        /\ Key(r2) \notin inProgress /\ Key(r2) \in DOMAIN cache
        /\ r2 \in active[r1]


(***************************************************************************)
(* C21. Chain covers the map: in every state, every savedResult that the   *)
(* map holds is met by following the newer links from cacheOldest;         *)
(* cacheNewest is the last node of that chain and its newer link is        *)
(* empty; and cacheOldest and cacheNewest are empty exactly as long as     *)
(* nothing has been inserted.  So a sweep, which walks this chain, passes  *)
(* every entry of the map.                                                 *)
(***************************************************************************)
C21_ChainCoversMap ==
    LET ch == ChainFrom(cacheOldest)
    IN  /\ \A k \in DOMAIN cache : \E i \in 1..Len(ch) : ch[i] = cache[k]
        /\ cacheNewest # Nil =>
              /\ nodes[cacheNewest].newer = Nil
              /\ ch # <<>> /\ ch[Len(ch)] = cacheNewest
        /\ (cacheOldest = Nil) <=> (nodes = <<>>)
        /\ (cacheNewest = Nil) <=> (nodes = <<>>)

C21_Witness ==
    /\ Len(nodes) = 3
    /\ swept # {}
    /\ cacheOldest # Nil /\ read(cache, nodes[cacheOldest].key) # cacheOldest
    /\ cache # <<>>
    /\ Len(ChainFrom(cacheOldest)) > Cardinality(DOMAIN cache)

=============================================================================
